---- MODULE Spec2Model ----
(***************************************************************************)
(* State-machine model of NeurosurgicalAPIKeyManager                       *)
(* (src/src/core/api_key_manager.py): the key table, the selector, the     *)
(* call recorder, the budget guard, the health classifier, the rotator     *)
(* and the background monitor, with the asyncio suspension points of each  *)
(* coroutine as separate steps.                                            *)
(*                                                                         *)
(* Numbers.  Python floats are modelled as scaled integers:                *)
(*   success_rate          in units of 1/SRScale percent,                  *)
(*   avg_response_time_ms  in units of 1/RTScale ms,                       *)
(*   daily_cost / budget   in mills (1/1000 currency unit),                *)
(*   datetimes             in whole hours since an epoch at UTC midnight.  *)
(***************************************************************************)
EXTENDS Integers, Sequences, FiniteSets, TLC

\* ------------------------------------------------------------------ bounds
MaxCalls == 5          \* record_api_call invocations explored per behaviour
MaxRotations == 1      \* rotate_key invocations that find their key, per behaviour
MaxRuns == 2           \* process lifetimes (construct + initialize) explored
StartTime == 10        \* wall clock (hours) when the first process starts
MaxAdvance == 2        \* hours the wall clock advances in a behaviour
ClockStep == 2         \* hours between two observations of the wall clock
MaxKeys == 2           \* records per service in the tables drawn for pure functions

\* ------------------------------------------------------- program constants
critical_failure_threshold == 5
daily_budget_per_service == 15000   \* 15.0 currency units, in mills
WarningMargin == 2000               \* "Less than $2 remaining", in mills
RecoveryIdleSeconds == 3600
SRScale == 10000
RTScale == 100

\* The services of the key table.  The table of the program has four
\* entries that are treated alike ("openai", "gemini", "claude",
\* "perplexity"); the model keeps the first two, in dict order.
ServiceOrder == <<"openai", "gemini">>
Services == {ServiceOrder[i] : i \in 1..Len(ServiceOrder)}
UnknownService == "mistral"

\* APIKeyStatus values
StatusValues == {"active", "rate_limited", "expired", "failed", "rotating"}

\* str(member) of the plain Enum APIKeyStatus: "APIKeyStatus.<NAME>"
EnumStr(status) ==
    CASE status = "active" -> "APIKeyStatus.ACTIVE"
      [] status = "rate_limited" -> "APIKeyStatus.RATE_LIMITED"
      [] status = "expired" -> "APIKeyStatus.EXPIRED"
      [] status = "failed" -> "APIKeyStatus.FAILED"
      [] status = "rotating" -> "APIKeyStatus.ROTATING"

NoData == [none |-> TRUE]
NoResult == [op |-> "", svc |-> "", kind |-> "none", key_id |-> "",
             secret |-> "", idx |-> 0]
NoTask == [pc |-> "idle", service |-> ""]
NoResets == [day |-> 0, n |-> 0]

VARIABLES
    secrets,      \* settings.<service>_api_key: "" when unset
    redisUp,      \* whether the Redis server answers during this process
    store,        \* Redis: api_key_meta:{service}:primary -> JSON or NoData
    phase,        \* "constructed" (after __init__) or "ready" (after initialize)
    api_keys,     \* self.api_keys: service -> list of APIKeyInfo
    monitor,      \* whether the _background_monitoring task was created
    monReset,     \* records _daily_reset still has to visit in this tick
    rot,          \* the in-flight rotate_key call: where it is suspended
    ret,          \* what the call completed by the last step returned or raised
    now,          \* datetime.utcnow(), in hours
    streak,       \* per service: consecutive failed calls since Active/0
    calls,        \* record_api_call invocations that found their key
    rotations,    \* rotate_key invocations that found their key
    runs,         \* process lifetimes so far
    dayResets     \* _daily_reset passes the monitor began: UTC day of the last, and how many that day

vars == <<secrets, redisUp, store, phase, api_keys, monitor, monReset, rot,
          ret, now, streak, calls, rotations, runs, dayResets>>

\* ------------------------------------------------------------ APIKeyInfo
\* Fresh record as built in _load_api_keys and _setup_basic_keys.
NewKeyInfo(service, t) ==
    [ key_id |-> "primary",
      service |-> service,
      status |-> "active",
      last_used |-> t,
      success_rate |-> 100 * SRScale,
      avg_response_time_ms |-> 0,
      daily_requests |-> 0,
      daily_cost |-> 0,
      failure_count |-> 0 ]

\* json.dumps(asdict(key_info), default=str): the Enum and the datetime are
\* not JSON types and go through str().
ToJson(k) ==
    [ key_id |-> k.key_id,
      service |-> k.service,
      status |-> EnumStr(k.status),
      last_used |-> <<"iso", k.last_used>>,
      success_rate |-> k.success_rate,
      avg_response_time_ms |-> k.avg_response_time_ms,
      daily_requests |-> k.daily_requests,
      daily_cost |-> k.daily_cost,
      failure_count |-> k.failure_count ]

\* APIKeyStatus(value) raises ValueError unless value is a member value.
DictToKeyInfoRaises(data) == data.status \notin StatusValues

\* _dict_to_key_info, when it does not raise.
DictToKeyInfo(data) ==
    [ key_id |-> data.key_id,
      service |-> data.service,
      status |-> data.status,
      last_used |-> data.last_used[2],
      success_rate |-> data.success_rate,
      avg_response_time_ms |-> data.avg_response_time_ms,
      daily_requests |-> data.daily_requests,
      daily_cost |-> data.daily_cost,
      failure_count |-> data.failure_count ]

\* _store_key_metadata: redis_client is set by initialize whether or not the
\* server answers; an unreachable server makes setex raise, which is caught.
StoreKeyMetadata(st, k) ==
    IF redisUp THEN [st EXCEPT ![k.service] = ToJson(k)] ELSE st

\* _get_key_metadata
GetKeyMetadata(st, service) == IF redisUp THEN st[service] ELSE NoData

\* ------------------------------------------------------------ initialize
\* _load_api_keys from the i-th service on.  A ValueError of
\* _dict_to_key_info leaves the loop with what was appended so far.
RECURSIVE LoadApiKeys(_, _, _)
LoadApiKeys(i, keys, st) ==
    IF i > Len(ServiceOrder)
    THEN [api_keys |-> keys, store |-> st, raised |-> FALSE]
    ELSE LET s == ServiceOrder[i]
             data == GetKeyMetadata(st, s)
         IN  IF secrets[s] = ""
             THEN LoadApiKeys(i + 1, keys, st)
             ELSE IF data = NoData
             THEN LET k == NewKeyInfo(s, now)
                  IN  LoadApiKeys(i + 1, [keys EXCEPT ![s] = Append(@, k)],
                                  StoreKeyMetadata(st, k))
             ELSE IF DictToKeyInfoRaises(data)
             THEN [api_keys |-> keys, store |-> st, raised |-> TRUE]
             ELSE LET k == DictToKeyInfo(data)
                  IN  LoadApiKeys(i + 1, [keys EXCEPT ![s] = Append(@, k)],
                                  StoreKeyMetadata(st, k))

\* _setup_basic_keys: one more "primary" record for every service.
SetupBasicKeys(keys) ==
    [s \in Services |-> Append(keys[s], NewKeyInfo(s, now))]

Initialize ==
    /\ phase = "constructed"
    /\ LET loaded == LoadApiKeys(1, api_keys, store)
       IN  IF redisUp /\ ~loaded.raised
           THEN /\ api_keys' = loaded.api_keys
                /\ store' = loaded.store
                /\ monitor' = TRUE
           ELSE IF redisUp
           THEN /\ api_keys' = SetupBasicKeys(loaded.api_keys)
                /\ store' = loaded.store
                /\ monitor' = FALSE
           ELSE /\ api_keys' = SetupBasicKeys(api_keys)
                /\ store' = store
                /\ monitor' = FALSE
    /\ phase' = "ready"
    /\ ret' = NoResult
    /\ UNCHANGED <<dayResets, secrets, redisUp, monReset, rot, now, streak, calls, rotations, runs>>

\* -------------------------------------------------------- get_active_key
\* The key of min(): (failure_count, avg_response_time_ms, -success_rate)
SortKey(k) == <<k.failure_count, k.avg_response_time_ms, -k.success_rate>>

\* Mutant: the first component compared the wrong way round
TupleLessReversed(a, b) ==
    \/ a[1] > b[1]
    \/ a[1] = b[1] /\ a[2] < b[2]
    \/ a[1] = b[1] /\ a[2] = b[2] /\ a[3] < b[3]

\* Python tuple comparison a < b
TupleLess(a, b) ==
    \/ a[1] < b[1]
    \/ a[1] = b[1] /\ a[2] < b[2]
    \/ a[1] = b[1] /\ a[2] = b[2] /\ a[3] < b[3]

\* First list comprehension of get_active_key
IsPrimaryCandidate(k) ==
    k.status = "active" /\ k.failure_count < critical_failure_threshold

\* Mutant: the fallback comprehension without its filter
IsFallbackCandidateAny(k) == k.status \in StatusValues

\* Second list comprehension ("any non-failed key")
IsFallbackCandidate(k) == k.status # "failed"

\* available_keys, as positions in the service's list
AvailableKeys(keys) ==
    LET primary == {i \in DOMAIN keys : IsPrimaryCandidate(keys[i])}
    IN  IF primary # {} THEN primary
        ELSE {i \in DOMAIN keys : IsFallbackCandidate(keys[i])}

\* min(available_keys, key=...): the first of the smallest elements
BestKey(keys, avail) ==
    CHOOSE i \in avail :
        \A j \in avail :
            /\ ~TupleLess(SortKey(keys[j]), SortKey(keys[i]))
            /\ j < i => TupleLess(SortKey(keys[i]), SortKey(keys[j]))

\* _get_actual_key: key_mapping.get(service, "")
GetActualKey(service) == IF service \in Services THEN secrets[service] ELSE ""

\* Mutant: no membership test, the lookup raises KeyError
GetActiveKeyNoServiceCheck(table, service) ==
    IF service \notin DOMAIN table
    THEN [NoResult EXCEPT !.op = "get_active_key", !.svc = service,
                          !.kind = "KeyError"]
    ELSE LET keys == table[service]
             avail == AvailableKeys(keys)
         IN  IF avail = {}
             THEN [NoResult EXCEPT !.op = "get_active_key", !.svc = service,
                                   !.kind = "NoAvailableKey"]
             ELSE [ op |-> "get_active_key", svc |-> service, kind |-> "ok",
                    key_id |-> keys[BestKey(keys, avail)].key_id,
                    secret |-> GetActualKey(service),
                    idx |-> BestKey(keys, avail) ]

\* What get_active_key(service) returns or raises on the table `table`:
\* ValueError (line 192), the bare Exception "No available API keys"
\* (line 208, kind NoAvailableKey), or (actual_key, key_id).
GetActiveKey(table, service) ==
    IF service \notin DOMAIN table
    THEN [NoResult EXCEPT !.op = "get_active_key", !.svc = service,
                          !.kind = "ValueError"]
    ELSE LET keys == table[service]
             avail == AvailableKeys(keys)
         IN  IF avail = {}
             THEN [NoResult EXCEPT !.op = "get_active_key", !.svc = service,
                                   !.kind = "NoAvailableKey"]
             ELSE [ op |-> "get_active_key", svc |-> service, kind |-> "ok",
                    key_id |-> keys[BestKey(keys, avail)].key_id,
                    secret |-> GetActualKey(service),
                    idx |-> BestKey(keys, avail) ]

Select(service) ==
    /\ phase = "ready"
    /\ LET r == GetActiveKey(api_keys, service)
       IN  /\ ret' = r
           /\ IF r.kind = "ok"
              THEN LET k == [api_keys[service][r.idx] EXCEPT !.last_used = now]
                   IN  /\ api_keys' = [api_keys EXCEPT ![service][r.idx] = k]
                       /\ store' = StoreKeyMetadata(store, k)
              ELSE UNCHANGED <<api_keys, store>>
    /\ UNCHANGED <<dayResets, secrets, redisUp, phase, monitor, monReset, rot, now,
                   streak, calls, rotations, runs>>

\* ------------------------------------------------------- record_api_call
\* Mutant: a key_id that matches no record designates the first record
FindKeyOrFirst(keys, key_id) ==
    LET m == {i \in DOMAIN keys : keys[i].key_id = key_id}
    IN  IF m = {} THEN (IF keys = <<>> THEN 0 ELSE 1)
        ELSE CHOOSE i \in m : \A j \in m : i <= j

\* Position of the first record with this key_id, 0 when there is none.
FindKey(keys, key_id) ==
    LET m == {i \in DOMAIN keys : keys[i].key_id = key_id}
    IN  IF m = {} THEN 0 ELSE CHOOSE i \in m : \A j \in m : i <= j

\* weight = min(0.1, 1.0 / daily_requests), as the denominator of 1/weight
WeightDen(n) == IF n < 10 THEN 10 ELSE n

\* current * (1 - weight) + sample * weight
Ema(current, sample, n) ==
    (current * (WeightDen(n) - 1) + sample) \div WeightDen(n)

NextSuccessRate(k, n, success) ==
    LET new_rate == IF success THEN 100 * SRScale ELSE 0
    IN  IF n = 1 THEN new_rate ELSE Ema(k.success_rate, new_rate, n)

\* Mutant: the first request of the day sets the latency directly
NextResponseTimeFirstOfDay(k, n, response_time) ==
    IF n = 1 THEN response_time
    ELSE Ema(k.avg_response_time_ms, response_time, n)

\* Lines 263-270: the sample is taken as it is while the average is 0.
NextResponseTime(k, n, response_time) ==
    IF k.avg_response_time_ms = 0 THEN response_time
    ELSE Ema(k.avg_response_time_ms, response_time, n)

NextFailureCount(fc, success) ==
    IF success THEN (IF fc - 1 > 0 THEN fc - 1 ELSE 0) ELSE fc + 1

\* Mutant: the threshold compared with > instead of >=
NextStatusOffByOne(status, fc, success) ==
    IF ~success /\ fc > critical_failure_threshold THEN "failed" ELSE status

\* Mutant: a success below the threshold reactivates a Failed record
NextStatusReactivates(status, fc, success) ==
    IF ~success /\ fc >= critical_failure_threshold THEN "failed"
    ELSE IF success /\ status = "failed" /\ fc < critical_failure_threshold
    THEN "active"
    ELSE status

\* "Check if key should be marked as failed" (only on the failure branch)
NextStatus(status, fc, success) ==
    IF ~success /\ fc >= critical_failure_threshold THEN "failed" ELSE status

\* Mutant: the status is left for after the store
RecordUpdateDefersStatus(k, success, response_time, cost) ==
    LET n == k.daily_requests + 1
        fc == NextFailureCount(k.failure_count, success)
    IN  [k EXCEPT !.daily_requests = n,
                  !.daily_cost = @ + cost,
                  !.success_rate = NextSuccessRate(k, n, success),
                  !.avg_response_time_ms = NextResponseTime(k, n, response_time),
                  !.failure_count = fc]

\* Lines 249-281 applied to one record
RecordUpdate(k, success, response_time, cost) ==
    LET n == k.daily_requests + 1
        fc == NextFailureCount(k.failure_count, success)
    IN  [k EXCEPT !.daily_requests = n,
                  !.daily_cost = @ + cost,
                  !.success_rate = NextSuccessRate(k, n, success),
                  !.avg_response_time_ms = NextResponseTime(k, n, response_time),
                  !.failure_count = fc,
                  !.status = NextStatus(@, fc, success)]

\* Consecutive failed calls on the only key of a service, counted from a
\* state in which that key was Active with failure_count 0.
NextStreak(n, keys, k, success) ==
    IF success THEN 0
    ELSE IF n > 0 THEN (IF n < critical_failure_threshold THEN n + 1 ELSE n)
    ELSE IF Len(keys) = 1 /\ k.status = "active" /\ k.failure_count = 0
    THEN 1 ELSE 0

\* The call returns None; the result keeps what a recorded call reported.
RecordApiCall(service, key_id, success, response_time, cost) ==
    /\ phase = "ready"
    /\ calls < MaxCalls
    /\ LET keys == IF service \in Services THEN api_keys[service] ELSE <<>>
           i == FindKey(keys, key_id)
       IN  IF i = 0
           THEN /\ ret' = [NoResult EXCEPT !.op = "record_api_call",
                                           !.svc = service, !.key_id = key_id,
                                           !.kind = "returned"]
                /\ UNCHANGED <<api_keys, store, streak, calls>>
           ELSE LET k == RecordUpdate(keys[i], success, response_time, cost)
                IN  /\ api_keys' = [api_keys EXCEPT ![service][i] = k]
                    /\ store' = StoreKeyMetadata(store, k)
                    /\ streak' = [streak EXCEPT ![service] =
                                    NextStreak(@, keys, keys[i], success)]
                    /\ calls' = calls + 1
                    /\ ret' = [ op |-> "record_api_call", svc |-> service,
                                kind |-> "returned", key_id |-> key_id,
                                secret |-> "", idx |-> 0,
                                success |-> success,
                                response_time_ms |-> response_time,
                                estimated_cost |-> cost ]
    /\ UNCHANGED <<dayResets, secrets, redisUp, phase, monitor, monReset, rot, now,
                   rotations, runs>>

\* ------------------------------------------------------------ rotate_key
\* Lines 419-440: look the key up, mark it rotating, then sleep.
RotateBegin(service, key_id) ==
    /\ phase = "ready"
    /\ rot = NoTask
    /\ LET keys == IF service \in Services THEN api_keys[service] ELSE <<>>
           i == FindKey(keys, key_id)
       IN  IF i = 0
           THEN /\ ret' = [NoResult EXCEPT !.op = "rotate_key",
                                           !.svc = service, !.key_id = key_id,
                                           !.kind = "false"]
                /\ UNCHANGED <<api_keys, streak, rot, rotations>>
           ELSE /\ rotations < MaxRotations
                /\ rotations' = rotations + 1
                /\ api_keys' = [api_keys EXCEPT ![service][i].status = "rotating"]
                /\ rot' = [pc |-> "sleeping", service |-> service]
                /\ streak' = [streak EXCEPT ![service] = 0]
                /\ ret' = NoResult
    /\ UNCHANGED <<dayResets, secrets, redisUp, store, phase, monitor, monReset, now,
                   calls, runs>>

\* Mutant: the reset forgets failure_count
RotateResetKeepsFailures(k) ==
    [k EXCEPT !.status = "active",
              !.success_rate = 100 * SRScale,
              !.daily_requests = 0,
              !.daily_cost = 0]

\* Lines 442-446
RotateReset(k) ==
    [k EXCEPT !.status = "active",
              !.failure_count = 0,
              !.success_rate = 100 * SRScale,
              !.daily_requests = 0,
              !.daily_cost = 0]

\* Lines 442-448: after the sleep, reset the record and start the store.
RotateResume ==
    /\ rot.pc = "sleeping"
    /\ LET i == FindKey(api_keys[rot.service], "primary")
           k == RotateReset(api_keys[rot.service][i])
       IN  /\ api_keys' = [api_keys EXCEPT ![rot.service][i] = k]
           /\ store' = StoreKeyMetadata(store, k)
    /\ rot' = [rot EXCEPT !.pc = "storing"]
    /\ streak' = [streak EXCEPT ![rot.service] = 0]
    /\ ret' = NoResult
    /\ UNCHANGED <<dayResets, secrets, redisUp, phase, monitor, monReset, now, calls, rotations, runs>>

\* Lines 448-451: the awaited store completes and rotate_key returns True.
RotateReturn ==
    /\ rot.pc = "storing"
    /\ rot' = NoTask
    /\ ret' = [NoResult EXCEPT !.op = "rotate_key", !.svc = rot.service,
                               !.kind = "true"]
    /\ UNCHANGED <<dayResets, secrets, redisUp, store, phase, api_keys, monitor, monReset,
                   now, streak, calls, rotations, runs>>

\* Mutant: a cancelled rotation puts the record back to Active
RotateCancelRestores ==
    /\ rot.pc = "sleeping"
    /\ rot' = NoTask
    /\ api_keys' = [api_keys EXCEPT
          ![rot.service][FindKey(api_keys[rot.service], "primary")].status =
              "active"]
    /\ ret' = [NoResult EXCEPT !.op = "rotate_key", !.svc = rot.service,
                               !.kind = "CancelledError"]
    /\ UNCHANGED <<dayResets, secrets, redisUp, store, phase, monitor, monReset,
                   now, streak, calls, rotations, runs>>

\* The task is cancelled while it sleeps: CancelledError is not an
\* Exception, the handler at 453 does not run, the record stays Rotating.
RotateCancel ==
    /\ rot.pc = "sleeping"
    /\ rot' = NoTask
    /\ ret' = [NoResult EXCEPT !.op = "rotate_key", !.svc = rot.service,
                               !.kind = "CancelledError"]
    /\ UNCHANGED <<dayResets, secrets, redisUp, store, phase, api_keys, monitor, monReset,
                   now, streak, calls, rotations, runs>>

\* ------------------------------------------------- _background_monitoring
\* (datetime.utcnow() - last_used).seconds: the days of the timedelta are
\* not part of .seconds.
IdleSeconds(t, last_used) == ((t - last_used) % 24) * 3600

\* Mutant: recovery without the idle test
RecoverAnyIdle(k, t) ==
    IF k.status = "failed"
    THEN LET fc == IF k.failure_count - 1 > 0 THEN k.failure_count - 1 ELSE 0
         IN  [k EXCEPT !.failure_count = fc,
                       !.status = IF fc < critical_failure_threshold
                                  THEN "active" ELSE @]
    ELSE k

\* Mutant: recovery also clears the day's cost
RecoverClearsCost(k, t) ==
    IF k.status = "failed" /\ IdleSeconds(t, k.last_used) > RecoveryIdleSeconds
    THEN LET fc == IF k.failure_count - 1 > 0 THEN k.failure_count - 1 ELSE 0
         IN  [k EXCEPT !.failure_count = fc,
                       !.daily_cost = 0,
                       !.status = IF fc < critical_failure_threshold
                                  THEN "active" ELSE @]
    ELSE k

\* Mutant: recovery reactivates whatever the count is
RecoverToActive(k, t) ==
    IF k.status = "failed" /\ IdleSeconds(t, k.last_used) > RecoveryIdleSeconds
    THEN LET fc == IF k.failure_count - 1 > 0 THEN k.failure_count - 1 ELSE 0
         IN  [k EXCEPT !.failure_count = fc, !.status = "active"]
    ELSE k

\* Body of the loop of _health_check_service for one record
Recover(k, t) ==
    IF k.status = "failed" /\ IdleSeconds(t, k.last_used) > RecoveryIdleSeconds
    THEN LET fc == IF k.failure_count - 1 > 0 THEN k.failure_count - 1 ELSE 0
         IN  [k EXCEPT !.failure_count = fc,
                       !.status = IF fc < critical_failure_threshold
                                  THEN "active" ELSE @]
    ELSE k

\* _health_check_service
HealthCheckService(keys, t) == [i \in DOMAIN keys |-> Recover(keys[i], t)]

\* _health_check_service when the body of its loop raises at record n + 1:
\* the records before it are done, the handler at 498 ends the call.
HealthCheckServiceRaises(keys, t, n) ==
    [i \in DOMAIN keys |-> IF i <= n THEN Recover(keys[i], t) ELSE keys[i]]

\* Position of a service in the iteration order of self.api_keys
ServiceIndex(service) ==
    IF service \in Services
    THEN CHOOSE i \in 1..Len(ServiceOrder) : ServiceOrder[i] = service
    ELSE Len(ServiceOrder) + 1

\* Mutant: the exception leaves the loop over the services
HealthChecksAbort(table, t, faulty, n) ==
    [s \in Services |->
        IF s = faulty THEN HealthCheckServiceRaises(table[s], t, n)
        ELSE IF ServiceIndex(s) < ServiceIndex(faulty)
        THEN HealthCheckService(table[s], t)
        ELSE table[s]]

\* Lines 465-466 when the check of one service raises: the loop goes on to
\* the next service.  No service is faulty when `faulty` is not in the table.
HealthChecks(table, t, faulty, n) ==
    [s \in Services |->
        IF s = faulty THEN HealthCheckServiceRaises(table[s], t, n)
        ELSE HealthCheckService(table[s], t)]

\* datetime.utcnow().hour
HourOf(t) == t % 24

\* datetime.utcnow().date(), as a day number
DayOf(t) == t \div 24

\* One more _daily_reset pass begun at time t (counted up to 2 per day).
CountReset(r, t) ==
    IF r.n > 0 /\ r.day = DayOf(t)
    THEN [r EXCEPT !.n = IF @ < 2 THEN @ + 1 ELSE @]
    ELSE [day |-> DayOf(t), n |-> 1]

\* The records _daily_reset visits, in order.
RECURSIVE ResetOrder(_)
ResetOrder(i) ==
    IF i > Len(ServiceOrder) THEN <<>>
    ELSE [j \in 1..Len(api_keys[ServiceOrder[i]]) |-> <<ServiceOrder[i], j>>]
         \o ResetOrder(i + 1)

\* Mutant: the reset forgets daily_cost
DailyResetRecordKeepsCost(k) == [k EXCEPT !.daily_requests = 0]

\* Mutant: the reset also clears failure_count
DailyResetRecordClearsFailures(k) ==
    [k EXCEPT !.daily_requests = 0, !.daily_cost = 0, !.failure_count = 0]

\* Lines 507-508
DailyResetRecord(k) == [k EXCEPT !.daily_requests = 0, !.daily_cost = 0]

\* One pass of the loop after the sleep: health checks of all services,
\* budget checks (log only), then, when the hour is 0, _daily_reset, which
\* runs without suspension up to the store of the first record it visits.
MonitorTick ==
    /\ phase = "ready"
    /\ monitor
    /\ monReset = <<>>
    /\ LET checked == HealthChecks(api_keys, now, UnknownService, 0)
           order == ResetOrder(1)
       IN  /\ IF HourOf(now) = 0 /\ order # <<>>
              THEN LET s == Head(order)[1]
                       i == Head(order)[2]
                       k == DailyResetRecord(checked[s][i])
                   IN  /\ api_keys' = [checked EXCEPT ![s][i] = k]
                       /\ store' = StoreKeyMetadata(store, k)
                       /\ monReset' = Tail(order)
              ELSE /\ api_keys' = checked
                   /\ store' = store
                   /\ monReset' = <<>>
           /\ streak' = [s \in Services |->
                           IF checked[s] = api_keys[s] THEN streak[s] ELSE 0]
    /\ dayResets' = IF HourOf(now) = 0 THEN CountReset(dayResets, now)
                    ELSE dayResets
    /\ ret' = [NoResult EXCEPT !.op = "_background_monitoring", !.kind = "pass"]
    /\ UNCHANGED <<secrets, redisUp, phase, monitor, rot, now, calls, rotations, runs>>

\* One pass in which an exception is raised.  step "health": inside
\* _health_check_service(faulty), caught at 498; step "budget": inside
\* check_daily_budget(faulty), caught at 315, the pass sees status "error";
\* step "loop": in the body of the loop itself, before the health checks,
\* caught at 479.  In every case the while loop goes on.
MonitorTickFault(step, faulty) ==
    /\ phase = "ready"
    /\ monitor
    /\ monReset = <<>>
    /\ LET checked == IF step = "loop" THEN api_keys
                      ELSE IF step = "health"
                      THEN HealthChecks(api_keys, now, faulty, 0)
                      ELSE HealthChecks(api_keys, now, UnknownService, 0)
           order == ResetOrder(1)
       IN  /\ IF step # "loop" /\ HourOf(now) = 0 /\ order # <<>>
              THEN LET s == Head(order)[1]
                       i == Head(order)[2]
                       k == DailyResetRecord(checked[s][i])
                   IN  /\ api_keys' = [checked EXCEPT ![s][i] = k]
                       /\ store' = StoreKeyMetadata(store, k)
                       /\ monReset' = Tail(order)
              ELSE /\ api_keys' = checked
                   /\ store' = store
                   /\ monReset' = <<>>
           /\ streak' = [s \in Services |->
                           IF checked[s] = api_keys[s] THEN streak[s] ELSE 0]
    /\ dayResets' = IF step # "loop" /\ HourOf(now) = 0
                    THEN CountReset(dayResets, now)
                    ELSE dayResets
    /\ ret' = [ op |-> "_background_monitoring", svc |-> faulty,
                kind |-> "fault", step |-> step ]
    /\ UNCHANGED <<secrets, redisUp, phase, monitor, rot, now, calls, rotations, runs>>

\* After the awaited store of a record: lines 507-509 for the next record.
DailyResetStep ==
    /\ monReset # <<>>
    /\ LET s == Head(monReset)[1]
           i == Head(monReset)[2]
           k == DailyResetRecord(api_keys[s][i])
       IN  /\ api_keys' = [api_keys EXCEPT ![s][i] = k]
           /\ store' = StoreKeyMetadata(store, k)
    /\ monReset' = Tail(monReset)
    /\ ret' = NoResult
    /\ UNCHANGED <<dayResets, secrets, redisUp, phase, monitor, rot, now, streak, calls, rotations, runs>>

\* ------------------------------------------------------------ environment
\* The wall clock is seen ClockStep hours later.
Advance ==
    /\ phase = "ready"
    /\ now + ClockStep <= StartTime + MaxAdvance
    /\ now' = now + ClockStep
    /\ ret' = NoResult
    /\ UNCHANGED <<dayResets, secrets, redisUp, store, phase, api_keys, monitor, monReset,
                   rot, streak, calls, rotations, runs>>

\* The same, for a clock observed up to the hour `last`.
AdvanceWithin(last) ==
    /\ phase = "ready"
    /\ now + ClockStep <= last
    /\ now' = now + ClockStep
    /\ ret' = NoResult
    /\ UNCHANGED <<dayResets, secrets, redisUp, store, phase, api_keys, monitor, monReset,
                   rot, streak, calls, rotations, runs>>

\* The process ends and a new one is constructed (__init__).  Redis keeps
\* its entries except those whose 24 h TTL ran out while the process was down.
Restart(expired) ==
    /\ phase = "ready"
    /\ runs < MaxRuns
    /\ runs' = runs + 1
    /\ phase' = "constructed"
    /\ api_keys' = [s \in Services |-> <<>>]
    /\ store' = [s \in Services |-> IF s \in expired THEN NoData ELSE store[s]]
    /\ redisUp' \in BOOLEAN
    /\ monitor' = FALSE
    /\ monReset' = <<>>
    /\ rot' = NoTask
    /\ ret' = NoResult
    /\ streak' = [s \in Services |-> 0]
    /\ dayResets' = NoResets
    /\ UNCHANGED <<secrets, now, calls, rotations>>

\* ---------------------------------------------------- check_daily_budget
\* round(x, 2) of an amount in mills: the nearest 10 mills, ties to even.
Round2(m) ==
    LET q == m \div 10
        r == m % 10
    IN  IF r < 5 THEN 10 * q
        ELSE IF r > 5 THEN 10 * (q + 1)
        ELSE IF q % 2 = 0 THEN 10 * q ELSE 10 * (q + 1)

\* sum() of a list of numbers
RECURSIVE Sum(_)
Sum(q) == IF q = <<>> THEN 0 ELSE Head(q) + Sum(Tail(q))

\* Mutant: "exceeded" only below zero
BudgetStatusStrict(budget_remaining) ==
    IF budget_remaining < 0 THEN "exceeded"
    ELSE IF budget_remaining < WarningMargin THEN "warning"
    ELSE "ok"

\* Lines 300-304, on the unrounded budget_remaining
BudgetStatus(budget_remaining) ==
    IF budget_remaining <= 0 THEN "exceeded"
    ELSE IF budget_remaining < WarningMargin THEN "warning"
    ELSE "ok"

\* The dict check_daily_budget returns; KeyError on an unknown service is
\* caught and gives status "error".
CheckDailyBudget(table, service) ==
    IF service \notin DOMAIN table
    THEN [op |-> "check_daily_budget", svc |-> service, kind |-> "error"]
    ELSE LET keys == table[service]
             total_cost == Sum([i \in DOMAIN keys |-> keys[i].daily_cost])
             budget_remaining == daily_budget_per_service - total_cost
         IN  [ op |-> "check_daily_budget", svc |-> service,
               kind |-> BudgetStatus(budget_remaining),
               daily_cost |-> Round2(total_cost),
               budget_limit |-> daily_budget_per_service,
               budget_remaining |-> Round2(budget_remaining) ]

CheckBudget(service) ==
    /\ phase = "ready"
    /\ ret' = CheckDailyBudget(api_keys, service)
    /\ UNCHANGED <<dayResets, secrets, redisUp, store, phase, api_keys, monitor, monReset,
                   rot, now, streak, calls, rotations, runs>>

\* ---------------------------------------------------- get_service_health
\* Mutant: plain averages over the records instead of weighted ones
ClassifyUnweighted(keys) ==
    LET active_keys == Cardinality({i \in DOMAIN keys : keys[i].status = "active"})
        daily_requests == Sum([i \in DOMAIN keys |-> keys[i].daily_requests])
        rate == Sum([i \in DOMAIN keys |-> keys[i].success_rate]) \div Len(keys)
        time == Sum([i \in DOMAIN keys |-> keys[i].avg_response_time_ms])
                    \div Len(keys)
    IN  [ health |-> IF active_keys = 0 THEN "unhealthy"
                     ELSE IF rate < 80 * SRScale \/ time > 5000 * RTScale
                     THEN "degraded" ELSE "healthy",
          total_keys |-> Len(keys),
          active_keys |-> active_keys,
          daily_requests |-> daily_requests,
          success_rate |-> rate,
          avg_response_time_ms |-> time,
          circuit_breaker_open |-> (active_keys = 0) ]

\* Lines 346-365 and 383: health and circuit breaker of a non-empty list
Classify(keys) ==
    LET active_keys == Cardinality({i \in DOMAIN keys : keys[i].status = "active"})
        daily_requests == Sum([i \in DOMAIN keys |-> keys[i].daily_requests])
        weighted_rate ==
            Sum([i \in DOMAIN keys |-> keys[i].success_rate * keys[i].daily_requests])
        weighted_time ==
            Sum([i \in DOMAIN keys |->
                    keys[i].avg_response_time_ms * keys[i].daily_requests])
        success_rate == IF daily_requests > 0
                        THEN weighted_rate \div daily_requests
                        ELSE 100 * SRScale
        avg_response_time == IF daily_requests > 0
                             THEN weighted_time \div daily_requests
                             ELSE 0
        \* success_rate < 80.0 and avg_response_time > 5000, decided on the
        \* quotients themselves (the fields below are truncated to the scale)
        low_rate == daily_requests > 0
                    /\ weighted_rate < 80 * SRScale * daily_requests
        slow == daily_requests > 0
                /\ weighted_time > 5000 * RTScale * daily_requests
    IN  [ health |-> IF active_keys = 0 THEN "unhealthy"
                     ELSE IF low_rate \/ slow
                     THEN "degraded" ELSE "healthy",
          total_keys |-> Len(keys),
          active_keys |-> active_keys,
          daily_requests |-> daily_requests,
          success_rate |-> success_rate,
          avg_response_time_ms |-> avg_response_time,
          circuit_breaker_open |-> (active_keys = 0) ]

\* Mutant: the except path returns the snapshot of the empty list
GetServiceHealthOneUnknown(table, service) ==
    IF service \notin DOMAIN table \/ table[service] = <<>>
    THEN [ health |-> "unknown", total_keys |-> 0, active_keys |-> 0,
           daily_requests |-> 0, success_rate |-> 0, avg_response_time_ms |-> 0,
           circuit_breaker_open |-> FALSE ]
    ELSE Classify(table[service])

\* ServiceMetrics of get_service_health: the empty list gives the UNKNOWN
\* snapshot of line 330, a KeyError the one of line 389.
GetServiceHealth(table, service) ==
    IF service \notin DOMAIN table
    THEN [ health |-> "unknown", total_keys |-> 0, active_keys |-> 0,
           daily_requests |-> 0, success_rate |-> 0, avg_response_time_ms |-> 0,
           circuit_breaker_open |-> TRUE ]
    ELSE IF table[service] = <<>>
    THEN [ health |-> "unknown", total_keys |-> 0, active_keys |-> 0,
           daily_requests |-> 0, success_rate |-> 0, avg_response_time_ms |-> 0,
           circuit_breaker_open |-> FALSE ]
    ELSE Classify(table[service])

\* Mutant: asking for the health counts as a request on every record
HealthCountsRequest(service) ==
    /\ phase = "ready"
    /\ ret' = [ op |-> "get_service_health", svc |-> service,
                kind |-> "returned",
                snapshot |-> GetServiceHealth(api_keys, service) ]
    /\ api_keys' = [s \in Services |->
                      [i \in DOMAIN api_keys[s] |->
                          IF s = service
                          THEN [api_keys[s][i] EXCEPT !.daily_requests = @ + 1]
                          ELSE api_keys[s][i]]]
    /\ UNCHANGED <<dayResets, secrets, redisUp, store, phase, monitor,
                   monReset, rot, now, streak, calls, rotations, runs>>

\* get_service_health as a call: the snapshot goes to the caller.
Health(service) ==
    /\ phase = "ready"
    /\ ret' = [ op |-> "get_service_health", svc |-> service,
                kind |-> "returned",
                snapshot |-> GetServiceHealth(api_keys, service) ]
    /\ UNCHANGED <<dayResets, secrets, redisUp, store, phase, api_keys, monitor,
                   monReset, rot, now, streak, calls, rotations, runs>>

\* get_all_service_health: one snapshot per key of self.api_keys.
HealthAll ==
    /\ phase = "ready"
    /\ ret' = [ op |-> "get_all_service_health", svc |-> "",
                kind |-> "returned",
                snapshots |-> [s \in Services |-> GetServiceHealth(api_keys, s)] ]
    /\ UNCHANGED <<dayResets, secrets, redisUp, store, phase, api_keys, monitor,
                   monReset, rot, now, streak, calls, rotations, runs>>

\* ------------------------------------------------------- specifications
ConfiguredSecret(s) == IF s = "openai" THEN "sk-openai" ELSE "sk-gemini"

KeyIds == {"primary", "backup"}

\* What callers report: (success, response_time_ms, estimated_cost)
CallInputs ==
    { <<TRUE, 250 * RTScale, 8000>>, <<FALSE, 250 * RTScale, 0>> }

\* The settings explored: the first service has a secret, the second may
\* have none.
SecretConfigs ==
    { f \in [Services -> {""} \cup {ConfiguredSecret(s) : s \in Services}] :
        /\ f[ServiceOrder[1]] = ConfiguredSecret(ServiceOrder[1])
        /\ \A s \in Services : f[s] \in {"", ConfiguredSecret(s)} }

\* After __init__: empty table, nothing loaded yet.
Constructed ==
    /\ store = [s \in Services |-> NoData]
    /\ phase = "constructed"
    /\ api_keys = [s \in Services |-> <<>>]
    /\ monitor = FALSE
    /\ monReset = <<>>
    /\ rot = NoTask
    /\ ret = NoResult
    /\ now = StartTime
    /\ streak = [s \in Services |-> 0]
    /\ calls = 0
    /\ rotations = 0
    /\ runs = 1
    /\ dayResets = NoResets

Init ==
    /\ secrets \in SecretConfigs
    /\ redisUp \in BOOLEAN
    /\ redisUp \/ secrets[ServiceOrder[2]] = ""
    /\ Constructed

DoSelect == \E s \in Services \cup {UnknownService} : Select(s)

DoRecord ==
    \E s \in Services \cup {UnknownService}, id \in KeyIds, c \in CallInputs :
        RecordApiCall(s, id, c[1], c[2], c[3])

DoRotateBegin ==
    \E s \in Services \cup {UnknownService}, id \in KeyIds : RotateBegin(s, id)

\* One process: callers, one rotation, the monitor and the clock.
Next ==
    \/ Initialize
    \/ DoSelect
    \/ DoRecord
    \/ DoRotateBegin
    \/ RotateResume
    \/ RotateReturn
    \/ RotateCancel
    \/ MonitorTick
    \/ Advance

Spec == Init /\ [][Next]_vars

\* Successive processes over the same Redis.
InitRestart ==
    /\ secrets \in SecretConfigs
    /\ redisUp \in BOOLEAN
    /\ Constructed

DoRestart == \E e \in SUBSET Services : Restart(e)

NextRestart ==
    \/ Initialize
    \/ DoRecord
    \/ DoRestart

SpecRestart == InitRestart /\ [][NextRestart]_vars

\* ------------------------------------------- pure functions on key tables
\* Tables for the selector: up to MaxKeys records for the first service,
\* none for the others, every field the selector reads drawn from a small set.
KeyName(i) == CASE i = 1 -> "A" [] i = 2 -> "B" [] OTHER -> "C"

SelStatuses == {"active", "failed", "rotating"}
SelFailureCounts == {0, 2, critical_failure_threshold}
SelResponseTimes == {0, 250 * RTScale}
SelSuccessRates == {80 * SRScale, 100 * SRScale}

SelRecords ==
    { [NewKeyInfo(ServiceOrder[1], StartTime) EXCEPT
          !.status = st, !.failure_count = fc,
          !.avg_response_time_ms = rt, !.success_rate = sr] :
        st \in SelStatuses, fc \in SelFailureCounts,
        rt \in SelResponseTimes, sr \in SelSuccessRates }

Named(q) == [i \in DOMAIN q |-> [q[i] EXCEPT !.key_id = KeyName(i)]]

KeyLists(records) ==
    UNION { {Named(q) : q \in [1..n -> records]} : n \in 0..MaxKeys }

\* A running process whose table is `table`, Redis unreachable.
Running(table) ==
    /\ secrets \in SecretConfigs
    /\ redisUp = FALSE
    /\ store = [s \in Services |-> NoData]
    /\ phase = "ready"
    /\ api_keys = table
    /\ monitor = FALSE
    /\ monReset = <<>>
    /\ rot = NoTask
    /\ ret = NoResult
    /\ now = StartTime
    /\ streak = [s \in Services |-> 0]
    /\ calls = 0
    /\ rotations = 0
    /\ runs = 1
    /\ dayResets = NoResets

InitSel ==
    \E q \in KeyLists(SelRecords) :
        Running([s \in Services |-> IF s = ServiceOrder[1] THEN q ELSE <<>>])

SpecSel == InitSel /\ [][DoSelect]_vars

\* Tables for the budget guard: records that differ in daily_cost (mills).
BudgetCosts ==
    {0, 4, 6996, 8000, 13000, 13004, 13600, 14996, 15000, 15004}

BudgetRecords ==
    { [NewKeyInfo(ServiceOrder[1], StartTime) EXCEPT !.daily_cost = c] :
        c \in BudgetCosts }

InitBudget ==
    \E q \in KeyLists(BudgetRecords) :
        Running([s \in Services |-> IF s = ServiceOrder[1] THEN q ELSE <<>>])

DoCheckBudget == \E s \in Services \cup {UnknownService} : CheckBudget(s)

SpecBudget == InitBudget /\ [][DoCheckBudget]_vars

\* Tables for the health classifier: records that differ in status and in
\* the three fields the weighted averages read.
HealthStatuses == {"active", "failed", "rotating"}
HealthRequests == {0, 1, 3}
HealthSuccessRates == {0, 80 * SRScale - 1, 80 * SRScale, 100 * SRScale}
HealthResponseTimes == {0, 5000 * RTScale, 5000 * RTScale + 1}

HealthRecords ==
    { [NewKeyInfo(ServiceOrder[1], StartTime) EXCEPT
          !.status = st, !.daily_requests = n,
          !.success_rate = sr, !.avg_response_time_ms = rt] :
        st \in HealthStatuses, n \in HealthRequests,
        sr \in HealthSuccessRates, rt \in HealthResponseTimes }

InitHealth ==
    \E q \in KeyLists(HealthRecords) :
        Running([s \in Services |-> IF s = ServiceOrder[1] THEN q ELSE <<>>])

DoHealth == \E s \in Services \cup {UnknownService} : Health(s)

NextHealth ==
    \/ DoHealth
    \/ HealthAll

SpecHealth == InitHealth /\ [][NextHealth]_vars

\* The background monitor on tables built up over earlier days: records
\* that differ in status, failure_count, idle time and daily counters.  The
\* clock starts ClockStep hours before a UTC midnight.
MonitorStart == 0 - ClockStep
MonitorStatuses == {"active", "failed", "rotating"}
MonitorFailureCounts ==
    {0, critical_failure_threshold - 1, critical_failure_threshold,
     critical_failure_threshold + 1}
MonitorIdleHours == {0, 1, 24 - ClockStep, 25 - ClockStep}
MonitorCounters == {<<0, 0>>, <<2, 8000>>}

MonitorRecords ==
    { [NewKeyInfo(ServiceOrder[1], MonitorStart - idle) EXCEPT
          !.status = st, !.failure_count = fc,
          !.daily_requests = c[1], !.daily_cost = c[2]] :
        st \in MonitorStatuses, fc \in MonitorFailureCounts,
        idle \in MonitorIdleHours, c \in MonitorCounters }

\* One such record for the first service.  A record is Active only below
\* the threshold (lines 279-280, 494-495).
MonitorLists ==
    { <<r>> : r \in { k \in MonitorRecords :
        /\ k.status = "active" => k.failure_count < critical_failure_threshold
        /\ k.status = "rotating" => k.failure_count = 0 } }

InitMonitor ==
    /\ secrets = [s \in Services |-> ConfiguredSecret(s)]
    /\ redisUp = TRUE
    /\ store = [s \in Services |-> NoData]
    /\ phase = "ready"
    /\ \E q \in MonitorLists :
          api_keys = [s \in Services |->
                        IF s = ServiceOrder[1] THEN q
                        ELSE << [NewKeyInfo(s, MonitorStart) EXCEPT
                                    !.daily_requests = 2, !.daily_cost = 8000] >>]
    /\ monitor = TRUE
    /\ monReset = <<>>
    /\ rot = NoTask
    /\ ret = NoResult
    /\ now = MonitorStart
    /\ streak = [s \in Services |-> 0]
    /\ calls = 0
    /\ rotations = 0
    /\ runs = 1
    /\ dayResets = NoResets

\* A successful call of 8.0 currency units on a primary key.
DoRecordCost ==
    \E s \in Services : RecordApiCall(s, "primary", TRUE, 250 * RTScale, 8000)

NextMonitor ==
    \/ MonitorTick
    \/ DailyResetStep
    \/ Advance
    \/ DoRecordCost

SpecMonitor == InitMonitor /\ [][NextMonitor]_vars

\* One process under fair scheduling: initialize completes, the monitor
\* task, once created, keeps running its loop (line 460), and the wall clock
\* keeps advancing.  Callers may stop at any time.
NextLive ==
    \/ Initialize
    \/ DoRecord
    \/ MonitorTick
    \/ Advance

FairLive ==
    /\ WF_vars(Initialize)
    /\ WF_vars(MonitorTick)
    /\ WF_vars(Advance)

SpecLive == Init /\ [][NextLive]_vars /\ FairLive

\* Every operation of one process that starts at a UTC midnight with Redis
\* reachable and every service configured: callers, one rotation that runs to its end, the
\* monitor with its daily reset, and the clock up to ClockStep hours later.
\* The callers all work on the primary key of the service that _daily_reset
\* visits last, so that every operation meets every other on one record.
OpsService == ServiceOrder[Len(ServiceOrder)]

\* The record after n failed calls as in CallInputs.
RECURSIVE FailedCalls(_, _)
FailedCalls(k, n) ==
    IF n = 0 THEN k
    ELSE FailedCalls(RecordUpdate(k, FALSE, 250 * RTScale, 0), n - 1)

\* The table right after initialize, and the same table after
\* critical_failure_threshold failed calls on the key of OpsService.
OpsTables ==
    { [s \in Services |-> <<NewKeyInfo(s, 0)>>],
      [s \in Services |->
          IF s = OpsService
          THEN <<FailedCalls(NewKeyInfo(s, 0), critical_failure_threshold)>>
          ELSE <<NewKeyInfo(s, 0)>>] }

\* Either the process as constructed, or the process after initialize and
\* the failed calls, the counter of explored calls starting again at 0.
InitOps ==
    /\ secrets = [s \in Services |-> ConfiguredSecret(s)]
    /\ redisUp = TRUE
    /\ \/ /\ phase = "constructed"
          /\ api_keys = [s \in Services |-> <<>>]
          /\ store = [s \in Services |-> NoData]
          /\ monitor = FALSE
          /\ streak = [s \in Services |-> 0]
       \/ /\ phase = "ready"
          /\ \E t \in OpsTables :
                /\ t[OpsService][1].status = "failed"
                /\ api_keys = t
                /\ store = [s \in Services |-> ToJson(t[s][1])]
          /\ monitor = TRUE
          /\ streak = [s \in Services |->
                         IF s = OpsService THEN critical_failure_threshold
                         ELSE 0]
    /\ monReset = <<>>
    /\ rot = NoTask
    /\ ret = NoResult
    /\ now = 0
    /\ calls = 0
    /\ rotations = 0
    /\ runs = 1
    /\ dayResets = NoResets

DoAdvanceDay == AdvanceWithin(ClockStep)

DoOpsSelect == Select(OpsService)

DoOpsRecord ==
    \E c \in CallInputs : RecordApiCall(OpsService, "primary", c[1], c[2], c[3])

DoOpsRotate == RotateBegin(OpsService, "primary")

DoOpsCheckBudget == CheckBudget(OpsService)

DoOpsHealth == Health(OpsService)

NextOps ==
    \/ Initialize
    \/ DoOpsSelect
    \/ DoOpsRecord
    \/ DoOpsRotate
    \/ RotateResume
    \/ RotateReturn
    \/ MonitorTick
    \/ DailyResetStep
    \/ DoAdvanceDay
    \/ DoOpsCheckBudget
    \/ DoOpsHealth

SpecOps == InitOps /\ [][NextOps]_vars

\* The monitor when exceptions are raised inside its passes, on tables in
\* which each service has one record, Active or Failed with a count around
\* the threshold, idle or not.
FaultSteps == {"health", "budget", "loop"}
FaultFailureCounts ==
    {critical_failure_threshold, critical_failure_threshold + 1}
FaultIdleHours == {0, ClockStep}

FaultRecords(s) ==
    {NewKeyInfo(s, MonitorStart)} \cup
    { [NewKeyInfo(s, MonitorStart - idle) EXCEPT
          !.status = "failed", !.failure_count = fc] :
        fc \in FaultFailureCounts, idle \in FaultIdleHours }

InitFaults ==
    /\ secrets = [s \in Services |-> ConfiguredSecret(s)]
    /\ redisUp = TRUE
    /\ store = [s \in Services |-> NoData]
    /\ phase = "ready"
    /\ api_keys \in [Services -> UNION {{<<r>> : r \in FaultRecords(s)} : s \in Services}]
    /\ \A s \in Services : api_keys[s][1].service = s
    /\ monitor = TRUE
    /\ monReset = <<>>
    /\ rot = NoTask
    /\ ret = NoResult
    /\ now = MonitorStart
    /\ streak = [s \in Services |-> 0]
    /\ calls = 0
    /\ rotations = 0
    /\ runs = 1
    /\ dayResets = NoResets

DoMonitorFault ==
    \E step \in FaultSteps : \E s \in Services : MonitorTickFault(step, s)

NextFaults ==
    \/ MonitorTick
    \/ DoMonitorFault
    \/ DailyResetStep
    \/ Advance

SpecFaults == InitFaults /\ [][NextFaults]_vars

\* The call recorder as a function of the record and of what is reported:
\* records with and without a latency average, at request counts on both
\* sides of the point where the weight 1/daily_requests takes over.
LatencyAverages == {0, 100 * RTScale}
LatencyRequests == {0, 1, 9, 10, 19}
LatencySamples == {0, 100 * RTScale, 405 * RTScale + 7}

InitRecord ==
    /\ secrets = [s \in Services |-> ConfiguredSecret(s)]
    /\ redisUp = TRUE
    /\ store = [s \in Services |-> NoData]
    /\ phase = "ready"
    /\ \E a \in LatencyAverages : \E n \in LatencyRequests :
          api_keys = [s \in Services |->
                        IF s = OpsService
                        THEN << [NewKeyInfo(s, 0) EXCEPT
                                    !.avg_response_time_ms = a,
                                    !.daily_requests = n] >>
                        ELSE <<NewKeyInfo(s, 0)>>]
    /\ monitor = TRUE
    /\ monReset = <<>>
    /\ rot = NoTask
    /\ ret = NoResult
    /\ now = 0
    /\ streak = [s \in Services |-> 0]
    /\ calls = 0
    /\ rotations = 0
    /\ runs = 1
    /\ dayResets = NoResets

DoRecordLatency ==
    \E success \in BOOLEAN : \E sample \in LatencySamples :
        RecordApiCall(OpsService, "primary", success, sample, 0)

NextRecord == DoRecordLatency \/ DoOpsHealth

SpecRecord == InitRecord /\ [][NextRecord]_vars

\* The read operations on the states callers produce.
NextReads ==
    \/ Initialize
    \/ DoSelect
    \/ DoRecord
    \/ DoCheckBudget
    \/ DoHealth
    \/ HealthAll

SpecReads == Init /\ [][NextReads]_vars

\* ------------------------------------------------------------- claims
\* C1 (Spec).  Failure threshold: when the only key of a service, starting
\* Active with failure_count 0, has taken critical_failure_threshold
\* consecutive failed record_api_call calls, with no rotation and no monitor
\* recovery in between, the record is Failed, get_service_health reports
\* Unhealthy with the circuit breaker open, and get_active_key raises its
\* "No available API keys" exception.
C1_FailureThreshold ==
    \A s \in Services :
        streak[s] = critical_failure_threshold =>
            /\ Len(api_keys[s]) = 1
            /\ api_keys[s][1].status = "failed"
            /\ GetServiceHealth(api_keys, s).health = "unhealthy"
            /\ GetServiceHealth(api_keys, s).circuit_breaker_open
            /\ GetActiveKey(api_keys, s).kind = "NoAvailableKey"

\* The fifth consecutive failure has been recorded and a get_active_key
\* call on that service has just failed.
C1_Witness ==
    \E s \in Services :
        /\ streak[s] = critical_failure_threshold
        /\ ret.op = "get_active_key" /\ ret.svc = s
        /\ ret.kind = "NoAvailableKey"

\* Helpers of C2/C4: the two candidate tiers and the order of the sort
\* tuples, written out from the statement of the claims.
C2_Precedes(a, b) ==
    \/ a.failure_count < b.failure_count
    \/ /\ a.failure_count = b.failure_count
       /\ a.avg_response_time_ms < b.avg_response_time_ms
    \/ /\ a.failure_count = b.failure_count
       /\ a.avg_response_time_ms = b.avg_response_time_ms
       /\ a.success_rate > b.success_rate

C2_Primary(keys) ==
    {i \in DOMAIN keys : /\ keys[i].status = "active"
                         /\ keys[i].failure_count < critical_failure_threshold}

C2_Candidates(keys) ==
    IF C2_Primary(keys) # {} THEN C2_Primary(keys)
    ELSE {i \in DOMAIN keys : keys[i].status # "failed"}

\* C2 (SpecSel).  Selection correctness: whenever the candidate set of the
\* service is non-empty, get_active_key returns the key_id of a candidate
\* that no other candidate precedes in the lexicographic order of
\* (failure_count, avg_response_time_ms, -success_rate); with two Active keys
\* A (failure_count 2) and B (failure_count 0) it returns B.
C2_SelectionCorrectness ==
    (ret.op = "get_active_key" /\ ret.svc \in Services) =>
        LET keys == api_keys[ret.svc]
            cand == C2_Candidates(keys)
        IN  cand # {} =>
              /\ ret.kind = "ok"
              /\ ret.idx \in cand
              /\ ret.key_id = keys[ret.idx].key_id
              /\ \A j \in cand : ~C2_Precedes(keys[j], keys[ret.idx])
              /\ ( /\ Len(keys) = 2
                   /\ keys[1].status = "active" /\ keys[1].failure_count = 2
                   /\ keys[2].status = "active" /\ keys[2].failure_count = 0 )
                 => ret.key_id = "B"

\* Keys A (failure_count 2) and B (failure_count 0) are both Active and the
\* call has returned B.
C2_Witness ==
    /\ ret.op = "get_active_key" /\ ret.kind = "ok" /\ ret.key_id = "B"
    /\ Len(api_keys[ret.svc]) = 2
    /\ api_keys[ret.svc][1].status = "active"
    /\ api_keys[ret.svc][1].failure_count = 2
    /\ api_keys[ret.svc][2].status = "active"
    /\ api_keys[ret.svc][2].failure_count = 0

\* C3 (Spec), as claimed: get_active_key never returns a key whose status is
\* Rotating.
C3_RotatingNeverSelected ==
    (ret.op = "get_active_key" /\ ret.kind = "ok") =>
        api_keys[ret.svc][ret.idx].status # "rotating"

\* C4 (SpecSel).  Candidate tiers, for the services of the table:
\* get_active_key never returns a Failed key; it returns a key outside the
\* primary set (Active, failure_count below the threshold) only when that set
\* is empty; and when every record of the service is Failed, or there is
\* none, it raises the "No available API keys" exception.
C4_CandidateTiers ==
    (ret.op = "get_active_key" /\ ret.svc \in Services) =>
        LET keys == api_keys[ret.svc]
        IN  /\ ret.kind = "ok" => keys[ret.idx].status # "failed"
            /\ (ret.kind = "ok" /\ ret.idx \notin C2_Primary(keys))
                  => C2_Primary(keys) = {}
            /\ (\A i \in DOMAIN keys : keys[i].status = "failed")
                  => ret.kind = "NoAvailableKey"

\* The call returned a Rotating key from the widened tier while another
\* record of the service is Failed.
C4_Witness ==
    /\ ret.op = "get_active_key" /\ ret.kind = "ok"
    /\ api_keys[ret.svc][ret.idx].status = "rotating"
    /\ \E i \in DOMAIN api_keys[ret.svc] : api_keys[ret.svc][i].status = "failed"

\* C5 (SpecSel), as claimed: get_active_key returns or raises the
\* no-available-key error, nothing else, for every service name.
C5_OnlyNoAvailableKey ==
    ret.op = "get_active_key" => ret.kind \in {"ok", "NoAvailableKey"}

\* C5 (SpecSel), amended: for a service of the table get_active_key returns
\* or raises the no-available-key error; for a name that is not in the table
\* it raises ValueError.
C5_ErrorKinds ==
    ret.op = "get_active_key" =>
        IF ret.svc \in Services
        THEN ret.kind \in {"ok", "NoAvailableKey"}
        ELSE ret.kind = "ValueError"

\* A call with a name that is not in the table has raised.
C5_Witness ==
    /\ ret.op = "get_active_key" /\ ret.svc = UnknownService
    /\ ret.kind = "ValueError"

\* C6 (Spec), as claimed: a secret returned by get_active_key is the
\* non-empty configured credential of the service.
C6_SecretNonEmpty ==
    (ret.op = "get_active_key" /\ ret.kind = "ok") =>
        ret.secret # "" /\ ret.secret = ConfiguredSecret(ret.svc)

\* C7 (SpecRestart), as claimed: after initialize every service with a
\* secret has exactly one record, "primary", and every service without a
\* secret has none.
C7_OneRecordPerSecret ==
    phase = "ready" =>
        \A s \in Services :
            IF secrets[s] # ""
            THEN Len(api_keys[s]) = 1 /\ api_keys[s][1].key_id = "primary"
            ELSE api_keys[s] = <<>>

\* C8 (SpecRestart), as claimed: an initialize that finds a stored entry for
\* a configured service (Redis reachable) restores a record with the status,
\* failure_count, success_rate, avg_response_time_ms, daily_requests and
\* daily_cost that were persisted.
C8_RoundTrip ==
    [][ \A s \in Services :
          ( /\ phase = "constructed" /\ phase' = "ready"
            /\ redisUp /\ secrets[s] # "" /\ store[s] # NoData )
          => \E i \in DOMAIN api_keys'[s] :
                LET k == api_keys'[s][i]
                IN  /\ EnumStr(k.status) = store[s].status
                    /\ k.failure_count = store[s].failure_count
                    /\ k.success_rate = store[s].success_rate
                    /\ k.avg_response_time_ms = store[s].avg_response_time_ms
                    /\ k.daily_requests = store[s].daily_requests
                    /\ k.daily_cost = store[s].daily_cost ]_vars

C9_Fresh(k) ==
    /\ k.status = "active"
    /\ k.failure_count = 0
    /\ k.success_rate = 100 * SRScale
    /\ k.daily_requests = 0
    /\ k.daily_cost = 0

\* C9 (Spec), as claimed: at the moment rotate_key returns True the record
\* is Active with failure_count 0, success_rate 100, daily_requests 0 and
\* daily_cost 0.
C9_ResetAtReturn ==
    (ret.op = "rotate_key" /\ ret.kind = "true") =>
        C9_Fresh(api_keys[ret.svc][FindKey(api_keys[ret.svc], "primary")])

\* C9 (Spec), amended: when rotate_key resumes from its rotation delay it
\* leaves the record Active with failure_count 0, success_rate 100,
\* daily_requests 0 and daily_cost 0, whatever ran during the delay, and a
\* get_active_key at that point succeeds; the record keeps these values
\* until rotate_key returns True only if nothing is recorded on the key
\* while the write to the store is awaited.
C9_ResetAtResume ==
    [][ (rot.pc = "sleeping" /\ rot'.pc = "storing") =>
          /\ C9_Fresh(api_keys'[rot.service]
                               [FindKey(api_keys'[rot.service], "primary")])
          /\ GetActiveKey(api_keys', rot.service).kind = "ok" ]_vars

\* A rotation has reset a record after a key had gone through
\* critical_failure_threshold recorded calls, and is awaiting its store.
C9_Witness ==
    /\ rot.pc = "storing"
    /\ calls >= critical_failure_threshold
    /\ C9_Fresh(api_keys[rot.service][FindKey(api_keys[rot.service], "primary")])

\* C10 (SpecBudget), as claimed: the returned remaining is the limit minus
\* the sum of daily_cost, and the status is "exceeded" iff the returned
\* remaining <= 0, "warning" iff 0 < remaining < 2.0, "ok" otherwise.
C10_BudgetExact ==
    (ret.op = "check_daily_budget" /\ ret.svc \in Services) =>
        LET keys == api_keys[ret.svc]
            total == Sum([i \in DOMAIN keys |-> keys[i].daily_cost])
        IN  /\ ret.budget_remaining = daily_budget_per_service - total
            /\ ret.kind = "exceeded" <=> ret.budget_remaining <= 0
            /\ ret.kind = "warning" <=>
                  (0 < ret.budget_remaining /\ ret.budget_remaining < 2000)
            /\ ret.kind = "ok" <=> ret.budget_remaining >= 2000

\* C10 (SpecBudget), amended: the returned remaining is the limit minus the
\* sum of daily_cost rounded to two decimals, and the status is decided by
\* the unrounded difference: "exceeded" iff it is <= 0, "warning" iff it is
\* between 0 and 2.0, "ok" otherwise (limit 15.0, cost 13.6: "warning").
C10_BudgetRounded ==
    (ret.op = "check_daily_budget" /\ ret.svc \in Services) =>
        LET keys == api_keys[ret.svc]
            total == Sum([i \in DOMAIN keys |-> keys[i].daily_cost])
            exact == daily_budget_per_service - total
        IN  /\ ret.budget_remaining % 10 = 0
            /\ ret.budget_remaining - exact \in -5..5
            /\ ret.kind = "exceeded" <=> exact <= 0
            /\ ret.kind = "warning" <=> (0 < exact /\ exact < 2000)
            /\ ret.kind = "ok" <=> exact >= 2000
            /\ total = 13600 => ret.kind = "warning"

\* A check with 0.004 left: status "warning", returned remaining 0.0.
C10_Witness ==
    /\ ret.op = "check_daily_budget" /\ ret.kind = "warning"
    /\ ret.budget_remaining = 0

\* C11 (SpecHealth).  Health classification: for a service with at least
\* one record, get_service_health reports Unhealthy with the circuit
\* breaker open when no record is Active; otherwise Degraded when the
\* daily_requests-weighted success_rate is below 80 or the weighted
\* avg_response_time_ms is above 5000; otherwise Healthy; the breaker is
\* closed in both of these cases; with no requests at all the weighted
\* success_rate is 100 and the weighted latency 0.
C11_HealthClassification ==
    (ret.op = "get_service_health" /\ ret.svc \in Services
        /\ api_keys[ret.svc] # <<>>) =>
        LET keys == api_keys[ret.svc]
            n == Sum([i \in DOMAIN keys |-> keys[i].daily_requests])
            rates == Sum([i \in DOMAIN keys |->
                            keys[i].success_rate * keys[i].daily_requests])
            times == Sum([i \in DOMAIN keys |->
                            keys[i].avg_response_time_ms * keys[i].daily_requests])
            noActive == \A i \in DOMAIN keys : keys[i].status # "active"
            degraded == n > 0 /\ ( rates < 80 * SRScale * n
                                   \/ times > 5000 * RTScale * n )
            h == ret.snapshot
        IN  /\ h.health = IF noActive THEN "unhealthy"
                          ELSE IF degraded THEN "degraded" ELSE "healthy"
            /\ h.circuit_breaker_open = noActive
            /\ n = 0 => /\ h.success_rate = 100 * SRScale
                        /\ h.avg_response_time_ms = 0
            /\ n > 0 => /\ h.success_rate * n <= rates
                        /\ rates < (h.success_rate + 1) * n
                        /\ h.avg_response_time_ms * n <= times
                        /\ times < (h.avg_response_time_ms + 1) * n

\* A Degraded snapshot of two records that only the weights explain: the
\* plain mean of the two success rates is 80 or more and neither latency is
\* above 5000.
C11_Witness ==
    /\ ret.op = "get_service_health" /\ ret.svc \in Services
    /\ Len(api_keys[ret.svc]) = 2
    /\ ret.snapshot.health = "degraded"
    /\ api_keys[ret.svc][1].success_rate + api_keys[ret.svc][2].success_rate
          >= 2 * 80 * SRScale
    /\ \A i \in 1..2 : api_keys[ret.svc][i].avg_response_time_ms <= 5000 * RTScale

\* C12 (SpecHealth), as claimed: for a service with no record, known to the
\* table or not, get_service_health returns an Unknown snapshot with
\* total_keys 0 and the circuit breaker closed.
C12_UnknownBreakerClosed ==
    (ret.op = "get_service_health"
        /\ (ret.svc \notin Services \/ api_keys[ret.svc] = <<>>)) =>
        /\ ret.kind = "returned"
        /\ ret.snapshot.health = "unknown"
        /\ ret.snapshot.total_keys = 0
        /\ ret.snapshot.circuit_breaker_open = FALSE

\* C12 (SpecHealth), amended: get_service_health does not raise and returns
\* an Unknown snapshot with total_keys 0 in both cases; the circuit breaker
\* is closed for a service of the table that has no record, and open for a
\* name that is not in the table.
C12_UnknownSnapshot ==
    (ret.op = "get_service_health"
        /\ (ret.svc \notin Services \/ api_keys[ret.svc] = <<>>)) =>
        /\ ret.kind = "returned"
        /\ ret.snapshot.health = "unknown"
        /\ ret.snapshot.total_keys = 0
        /\ ret.snapshot.circuit_breaker_open = (ret.svc \notin Services)

\* The health of a name that is not in the table has been asked while
\* another service has records.
C12_Witness ==
    /\ ret.op = "get_service_health"
    /\ ret.svc = UnknownService
    /\ ret.snapshot.health = "unknown"
    /\ \E s \in Services : api_keys[s] # <<>>

\* max(0, failure_count - 1)
C13_Decremented(k) == IF k.failure_count > 1 THEN k.failure_count - 1 ELSE 0

\* C13 (SpecMonitor).  Recovery monotonicity: whenever a pass of the
\* background monitor changes a record from Failed to Active, the record
\* had been idle for more than one hour (now - last_used > 1 h) and its
\* failure_count after the decrement is below the threshold; a Failed record
\* that has been idle one hour or less, or whose failure_count is still at
\* or above the threshold after the decrement, is Failed after the pass.
C13_RecoveryMonotone ==
    [][ ret'.op = "_background_monitoring" =>
          \A s \in Services : \A i \in DOMAIN api_keys[s] :
              LET k == api_keys[s][i]
                  k2 == api_keys'[s][i]
              IN  /\ (k.status = "failed" /\ k2.status = "active") =>
                        /\ now - k.last_used > 1
                        /\ k2.failure_count = C13_Decremented(k)
                        /\ k2.failure_count < critical_failure_threshold
                  /\ ( k.status = "failed"
                       /\ ( now - k.last_used <= 1
                            \/ C13_Decremented(k) >= critical_failure_threshold ) )
                        => k2.status = "failed" ]_vars

\* A pass of the monitor has just run and, no call having been recorded,
\* a record stands Active with a failure_count that only the monitor's
\* decrement of a Failed record produces.
C13_Witness ==
    /\ ret.op = "_background_monitoring"
    /\ calls = 0
    /\ \E s \in Services : \E i \in DOMAIN api_keys[s] :
          /\ api_keys[s][i].status = "active"
          /\ api_keys[s][i].failure_count = critical_failure_threshold - 2
          /\ now - api_keys[s][i].last_used > 1

\* C17 (SpecMonitor).  Daily reset: a pass of _daily_reset visits every
\* record of every service once (the first within the monitor pass that
\* starts it, each of the others after the store of the one before); on
\* the record it visits it sets daily_requests and daily_cost to 0 and
\* leaves status, failure_count, success_rate and avg_response_time_ms (and
\* every other record) as they were; applied again to a record it has
\* reset it changes nothing.
C17_DailyResetIdempotent ==
    [][ /\ (ret'.op = "_background_monitoring" /\ HourOf(now) = 0) =>
              /\ \A s \in Services : \A i \in DOMAIN api_keys[s] :
                    Cardinality({j \in DOMAIN monReset' :
                                    monReset'[j] = <<s, i>>}) =
                        IF <<s, i>> = ResetOrder(1)[1] THEN 0 ELSE 1
              /\ LET s == ResetOrder(1)[1][1]
                     i == ResetOrder(1)[1][2]
                     k == api_keys[s][i]
                     k2 == api_keys'[s][i]
                 IN  /\ k2.daily_requests = 0
                     /\ k2.daily_cost = 0
                     /\ k2.success_rate = k.success_rate
                     /\ k2.avg_response_time_ms = k.avg_response_time_ms
                     /\ k.status # "failed" =>
                           /\ k2.status = k.status
                           /\ k2.failure_count = k.failure_count
                     /\ DailyResetRecord(k2) = k2
        /\ (monReset # <<>> /\ monReset' = Tail(monReset)) =>
              LET s == Head(monReset)[1]
                  i == Head(monReset)[2]
                  k == api_keys[s][i]
                  k2 == api_keys'[s][i]
              IN  /\ k2.daily_requests = 0
                  /\ k2.daily_cost = 0
                  /\ k2.status = k.status
                  /\ k2.failure_count = k.failure_count
                  /\ k2.success_rate = k.success_rate
                  /\ k2.avg_response_time_ms = k.avg_response_time_ms
                  /\ DailyResetRecord(k2) = k2
                  /\ \A t \in Services : \A j \in DOMAIN api_keys[t] :
                        <<t, j>> # <<s, i>> => api_keys'[t][j] = api_keys[t][j]
      ]_vars

\* Two passes of the daily reset have completed on the same day: every
\* counter is 0 and a record still has the failure_count it had.
C17_Witness ==
    /\ dayResets.n = 2
    /\ monReset = <<>>
    /\ calls = 0
    /\ \A s \in Services : \A i \in DOMAIN api_keys[s] :
          api_keys[s][i].daily_requests = 0 /\ api_keys[s][i].daily_cost = 0
    /\ \E s \in Services : \E i \in DOMAIN api_keys[s] :
          api_keys[s][i].failure_count = critical_failure_threshold + 1

\* C18 (SpecMonitor), as claimed: the monitor resets the counters at most
\* once per UTC day, so a daily_cost above 0 is set back to 0 (other than by
\* a rotation) only by the first reset pass of a UTC day.
C18_CostKeptUntilNextDay ==
    [][ \A s \in Services : \A i \in DOMAIN api_keys[s] :
          ( /\ rot' = rot
            /\ phase' = phase
            /\ api_keys[s][i].daily_cost > 0
            /\ api_keys'[s][i].daily_cost = 0 ) => dayResets.n <= 1 ]_vars

\* C19 (SpecMonitor), as claimed: on each pass of the monitor every Failed
\* record idle for more than one hour, however long, has its failure_count
\* decremented by 1 (floor 0) and is Active exactly when the new count is
\* below the threshold; every other record keeps its status and its
\* failure_count.
C19_RecoveryStep ==
    [][ ret'.op = "_background_monitoring" =>
          \A s \in Services : \A i \in DOMAIN api_keys[s] :
              LET k == api_keys[s][i]
                  k2 == api_keys'[s][i]
              IN  IF k.status = "failed" /\ now - k.last_used > 1
                  THEN /\ k2.failure_count = C13_Decremented(k)
                       /\ k2.status =
                            IF k2.failure_count < critical_failure_threshold
                            THEN "active" ELSE "failed"
                  ELSE /\ k2.status = k.status
                       /\ k2.failure_count = k.failure_count ]_vars

\* C20 (SpecLive), as claimed: after initialize the background monitor is
\* running whether or not Redis was reachable, so a service that has a
\* Failed key, with no rotation and once no further failure is recorded,
\* eventually has no Failed key.
C20_EventuallyRecovered ==
    \A s \in Services :
        (phase = "ready"
            /\ \E i \in DOMAIN api_keys[s] : api_keys[s][i].status = "failed")
        ~> (\A i \in DOMAIN api_keys[s] : api_keys[s][i].status # "failed")

\* C14 (SpecReads).  record_api_call never raises: every call returns
\* normally, and a call for a service name that is not in the table, or
\* for a key_id that matches no record of the service, leaves every record
\* and every stored copy as it was.
C14_RecordNeverRaises ==
    [][ ret'.op = "record_api_call" =>
          /\ ret'.kind = "returned"
          /\ ( \/ ret'.svc \notin Services
               \/ \A i \in DOMAIN api_keys[ret'.svc] :
                     api_keys[ret'.svc][i].key_id # ret'.key_id )
                => (api_keys' = api_keys /\ store' = store) ]_vars

\* A call for a name that is not in the table has returned, after calls
\* that were recorded and stored.
C14_Witness ==
    /\ ret.op = "record_api_call"
    /\ ret.svc = UnknownService
    /\ ret.kind = "returned"
    /\ calls > 0
    /\ \E s \in Services : store[s] # NoData

\* C15 (Spec), as claimed: rotate_key never raises; every call completes by
\* returning True or False.
C15_NeverRaises ==
    ret.op = "rotate_key" => ret.kind \in {"true", "false"}

\* C15 (Spec), amended: a rotate_key call for a service that is not in the
\* table or a key_id that matches no record returns False at once and
\* leaves every record and stored copy as it was; a call that finds its key
\* marks it Rotating; False is returned in no other case; a call cancelled
\* during the rotation delay lets CancelledError reach the caller and leaves
\* the record as it is at that moment.
C15_RotateOutcomes ==
    [][ /\ ret'.op = "rotate_key" =>
              ret'.kind \in {"true", "false", "CancelledError"}
        /\ (ret'.op = "rotate_key" /\ ret'.kind = "false") =>
              /\ rot = NoTask /\ rot' = NoTask
              /\ \/ ret'.svc \notin Services
                 \/ \A i \in DOMAIN api_keys[ret'.svc] :
                       api_keys[ret'.svc][i].key_id # ret'.key_id
              /\ api_keys' = api_keys
              /\ store' = store
        /\ (rot = NoTask /\ rot' # NoTask) =>
              /\ rot'.service \in Services
              /\ \E i \in DOMAIN api_keys[rot'.service] :
                    /\ api_keys[rot'.service][i].key_id = "primary"
                    /\ api_keys'[rot'.service][i].status = "rotating"
              /\ ret'.op # "rotate_key"
        /\ (ret'.op = "rotate_key" /\ ret'.kind = "CancelledError") =>
              /\ rot.pc = "sleeping"
              /\ api_keys' = api_keys
              /\ store' = store ]_vars

\* A rotation was cancelled in its delay: CancelledError reached the
\* caller and the record is Rotating.
C15_Witness ==
    /\ ret.op = "rotate_key"
    /\ ret.kind = "CancelledError"
    /\ \E i \in DOMAIN api_keys[ret.svc] :
          api_keys[ret.svc][i].status = "rotating"

\* C16 (SpecReads).  check_daily_budget, get_service_health and
\* get_all_service_health are read-only: a call of any of them leaves every
\* field of every record, and every stored copy, as it was.
C16_ReadsAreReadOnly ==
    [][ ret'.op \in {"check_daily_budget", "get_service_health",
                     "get_all_service_health"} =>
          (api_keys' = api_keys /\ store' = store) ]_vars

\* get_all_service_health has returned on a table that calls have changed
\* and that has a stored copy.
C16_Witness ==
    /\ ret.op = "get_all_service_health"
    /\ calls > 0
    /\ \E s \in Services :
          /\ store[s] # NoData
          /\ ret.snapshots[s].daily_requests > 0

\* C21 (SpecOps).  A record whose failure_count reaches
\* critical_failure_threshold is Failed after that step, and a Failed
\* record leaves Failed only in a pass of the background monitor or in
\* rotate_key (entering Rotating, or the reset after the delay): no
\* record_api_call, get_active_key, check_daily_budget, get_service_health
\* or _daily_reset step changes the status of a Failed record.
C21_FailedUntilRecoveryOrRotation ==
    [][ \A s \in Services :
          \A i \in DOMAIN api_keys[s] \cap DOMAIN api_keys'[s] :
            LET k == api_keys[s][i]
                k2 == api_keys'[s][i]
            IN  /\ ( /\ k.failure_count < critical_failure_threshold
                     /\ k2.failure_count >= critical_failure_threshold )
                      => k2.status = "failed"
                /\ (k.status = "failed" /\ k2.status # "failed")
                      => \/ /\ ret'.op = "_background_monitoring"
                            /\ monReset = <<>>
                         \/ /\ rot.pc = "idle"
                            /\ rot'.pc = "sleeping"
                            /\ rot'.service = s
                         \/ /\ rot.pc = "sleeping"
                            /\ rot'.pc = "storing"
                            /\ rot.service = s ]_vars

\* A successful call was recorded on a Failed record and brought its count
\* below the threshold; the record is still Failed.
C21_Witness ==
    /\ ret.op = "record_api_call"
    /\ calls > 0
    /\ ret.success
    /\ \E i \in DOMAIN api_keys[ret.svc] :
          /\ api_keys[ret.svc][i].status = "failed"
          /\ api_keys[ret.svc][i].failure_count < critical_failure_threshold

\* C22 (SpecOps), as claimed: failure_count of a record changes only in a
\* recorded record_api_call on its service or in the recovery of a pass of
\* the background monitor.
C22_OnlyRecorderAndRecovery ==
    [][ \A s \in Services :
          \A i \in DOMAIN api_keys[s] \cap DOMAIN api_keys'[s] :
            LET k == api_keys[s][i]
                k2 == api_keys'[s][i]
            IN  k2.failure_count # k.failure_count
                  => \/ /\ ret'.op = "record_api_call"
                        /\ ret'.svc = s
                        /\ calls' = calls + 1
                     \/ /\ ret'.op = "_background_monitoring"
                        /\ monReset = <<>>
                        /\ k.status = "failed"
                        /\ k2.failure_count = k.failure_count - 1 ]_vars

\* C22 (SpecOps), amended: failure_count changes only in a recorded
\* record_api_call, in the recovery of a monitor pass (a Failed record, by
\* one), or in the reset of rotate_key after its delay, which sets it to 0.
C22_RecorderRecoveryOrRotation ==
    [][ \A s \in Services :
          \A i \in DOMAIN api_keys[s] \cap DOMAIN api_keys'[s] :
            LET k == api_keys[s][i]
                k2 == api_keys'[s][i]
            IN  k2.failure_count # k.failure_count
                  => \/ /\ ret'.op = "record_api_call"
                        /\ ret'.svc = s
                        /\ calls' = calls + 1
                     \/ /\ ret'.op = "_background_monitoring"
                        /\ monReset = <<>>
                        /\ k.status = "failed"
                        /\ k2.failure_count = k.failure_count - 1
                     \/ /\ rot.pc = "sleeping"
                        /\ rot'.pc = "storing"
                        /\ rot.service = s
                        /\ k2.failure_count = 0 ]_vars

\* rotate_key has reset a record that no call was recorded on since the
\* failed calls that gave it its latency average: its count went to 0 in
\* the rotation.
C22_Witness ==
    /\ rot.pc = "storing"
    /\ calls = 0
    /\ \E i \in DOMAIN api_keys[rot.service] :
          /\ api_keys[rot.service][i].avg_response_time_ms > 0
          /\ api_keys[rot.service][i].failure_count = 0
          /\ api_keys[rot.service][i].status = "active"

\* C23 (SpecOps).  record_api_call applies its update between two
\* suspension points, so what check_daily_budget or get_service_health
\* reads is never a record with part of an update: an Active record is
\* below the threshold, a record with requests today has a latency average,
\* a record with cost today has requests today, and after the first
\* request of the day the success rate is 0 or 100.
C23_ReadersSeeWholeUpdates ==
    ret.op \in {"check_daily_budget", "get_service_health"} =>
        \A s \in Services : \A i \in DOMAIN api_keys[s] :
            LET k == api_keys[s][i]
            IN  /\ k.status = "active"
                     => k.failure_count < critical_failure_threshold
                /\ k.daily_requests > 0 => k.avg_response_time_ms > 0
                /\ k.daily_cost > 0 => k.daily_requests > 0
                /\ k.daily_requests = 1
                     => k.success_rate \in {0, 100 * SRScale}

\* get_service_health has read a record on which this process recorded the
\* failed call that reached the threshold: the record is Failed.
C23_Witness ==
    /\ ret.op = "get_service_health"
    /\ calls >= critical_failure_threshold
    /\ \E i \in DOMAIN api_keys[ret.svc] :
          /\ api_keys[ret.svc][i].status = "failed"
          /\ api_keys[ret.svc][i].failure_count >= critical_failure_threshold
          /\ api_keys[ret.svc][i].daily_requests = calls
          /\ ret.snapshot.active_keys = 0

\* C24 (SpecFaults).  Fault isolation in the background monitor: when an
\* exception is raised in a pass, the monitor task is still running after
\* the pass and its next step is enabled; and when it was raised in the
\* health check or in the budget check of one service, the records of every
\* other service have, after the same pass, the status and failure_count
\* that the health check of their service gives them.
C24_FaultsAreIsolated ==
    /\ [][ (ret'.op = "_background_monitoring" /\ ret'.kind = "fault")
            => /\ monitor'
               /\ phase' = "ready"
               /\ ret'.step \in {"health", "budget"}
                    => \A s \in Services :
                         (ret'.step = "health" => s # ret'.svc)
                           => \A i \in DOMAIN api_keys[s] :
                                LET h == HealthCheckService(api_keys[s], now)[i]
                                    k2 == api_keys'[s][i]
                                IN  /\ k2.status = h.status
                                    /\ k2.failure_count = h.failure_count
          ]_vars
    /\ [](ret.kind = "fault" => ENABLED (MonitorTick \/ DailyResetStep))

\* The health check of the first service raised in every pass so far, and
\* its idle Failed record is as it was; the record of the second service,
\* Failed at the threshold and idle at the start, was recovered.
C24_Witness ==
    /\ ret.op = "_background_monitoring"
    /\ ret.kind = "fault"
    /\ ret.step = "health"
    /\ ret.svc = ServiceOrder[1]
    /\ LET a == api_keys[ServiceOrder[1]][1]
           b == api_keys[ServiceOrder[2]][1]
       IN  /\ a.status = "failed"
           /\ a.failure_count = critical_failure_threshold
           /\ a.last_used = MonitorStart - ClockStep
           /\ b.status = "active"
           /\ b.failure_count = critical_failure_threshold - 1
           /\ b.last_used = MonitorStart - ClockStep

\* new == avg * (1 - w) + sample * w, rounded down, with
\* w = min(0.1, 1 / n)
C25_Blended(avg, new, sample, n) ==
    LET den == IF n > 10 THEN n ELSE 10
    IN  /\ new * den <= avg * (den - 1) + sample
        /\ avg * (den - 1) + sample < (new + 1) * den

\* C25 (SpecRecord), as claimed: the call that makes daily_requests 1 sets
\* avg_response_time_ms to the reported response_time_ms, and every later
\* call blends the sample into the average with w = min(0.1, 1/daily_requests).
C25_FirstRequestOfDay ==
    [][ (ret'.op = "record_api_call" /\ calls' = calls + 1)
          => \A i \in DOMAIN api_keys[ret'.svc] :
               LET k == api_keys[ret'.svc][i]
                   k2 == api_keys'[ret'.svc][i]
               IN  IF k2.daily_requests = 1
                   THEN k2.avg_response_time_ms = ret'.response_time_ms
                   ELSE C25_Blended(k.avg_response_time_ms,
                                    k2.avg_response_time_ms,
                                    ret'.response_time_ms, k2.daily_requests)
      ]_vars

\* C25 (SpecRecord), amended: a call on a record whose average is 0 sets
\* avg_response_time_ms to the reported response_time_ms; a call on a
\* record with a non-zero average, the first one of a day included, blends
\* the sample into it with w = min(0.1, 1/daily_requests).
C25_FirstSample ==
    [][ (ret'.op = "record_api_call" /\ calls' = calls + 1)
          => \A i \in DOMAIN api_keys[ret'.svc] :
               LET k == api_keys[ret'.svc][i]
                   k2 == api_keys'[ret'.svc][i]
               IN  IF k.avg_response_time_ms = 0
                   THEN k2.avg_response_time_ms = ret'.response_time_ms
                   ELSE C25_Blended(k.avg_response_time_ms,
                                    k2.avg_response_time_ms,
                                    ret'.response_time_ms, k2.daily_requests)
      ]_vars

\* The first request of a day was recorded on a record that had an
\* average: the average is not the reported sample.
C25_Witness ==
    /\ ret.op = "record_api_call"
    /\ calls = 1
    /\ \E i \in DOMAIN api_keys[ret.svc] :
          /\ api_keys[ret.svc][i].daily_requests = 1
          /\ api_keys[ret.svc][i].avg_response_time_ms # ret.response_time_ms
          /\ api_keys[ret.svc][i].avg_response_time_ms > 0

\* C26 (SpecOps), as claimed: in every state of a running process, for
\* every service whose get_service_health snapshot has circuit_breaker_open
\* true, get_active_key hands out no key.
C26_BreakerAgreesWithSelector ==
    phase = "ready" =>
        \A s \in Services :
            GetServiceHealth(api_keys, s).circuit_breaker_open
              => GetActiveKey(api_keys, s).kind # "ok"

\* A reset step of the day: a monitor pass at hour 0 or a later step of
\* its _daily_reset.
C27_ResetStep ==
    \/ ret'.op = "_background_monitoring" /\ HourOf(now) = 0
    \/ monReset # <<>> /\ monReset' = Tail(monReset)

\* C27 (SpecOps), as claimed: once check_daily_budget gives "exceeded" for
\* a service it gives "exceeded" after every step that is not a reset step
\* of the day.
C27_StickyUntilReset ==
    [][ \A s \in Services :
          ( /\ phase = "ready"
            /\ CheckDailyBudget(api_keys, s).kind = "exceeded"
            /\ ~C27_ResetStep )
            => CheckDailyBudget(api_keys', s).kind = "exceeded" ]_vars

\* C27 (SpecOps), amended: once check_daily_budget gives "exceeded" for a
\* service it gives "exceeded" after every step that is neither a reset
\* step of the day nor the reset of a rotate_key on a key of the service.
C27_StickyUntilResetOrRotation ==
    [][ \A s \in Services :
          ( /\ phase = "ready"
            /\ CheckDailyBudget(api_keys, s).kind = "exceeded"
            /\ ~C27_ResetStep
            /\ ~(rot.pc = "sleeping" /\ rot'.pc = "storing" /\ rot.service = s) )
            => CheckDailyBudget(api_keys', s).kind = "exceeded" ]_vars

\* check_daily_budget returned "exceeded" while a rotate_key on the key
\* that carries the cost was in its delay, after the calls that spent it.
C27_Witness ==
    /\ ret.op = "check_daily_budget"
    /\ ret.kind = "exceeded"
    /\ rot.pc = "sleeping"
    /\ rot.service = ret.svc
    /\ calls >= 2
    /\ \E i \in DOMAIN api_keys[ret.svc] :
          api_keys[ret.svc][i].status = "rotating"

\* C28 (SpecOps), as claimed: between the first write of rotate_key to a
\* record (Rotating) and its last (the reset), no other operation writes
\* the request count, the cost, the failure_count or the status of a record
\* of that service.
C28_WritesDoNotInterleave ==
    [][ (rot.pc = "sleeping" /\ rot'.pc = "sleeping")
          => \A i \in DOMAIN api_keys[rot.service] :
               LET k == api_keys[rot.service][i]
                   k2 == api_keys'[rot.service][i]
               IN  /\ k2.daily_requests = k.daily_requests
                   /\ k2.daily_cost = k.daily_cost
                   /\ k2.failure_count = k.failure_count
                   /\ k2.status = k.status ]_vars

\* C29 (SpecOps).  In every state reached from initialize by
\* get_active_key, record_api_call, rotate_key, monitor passes and
\* _daily_reset, every record has failure_count >= 0 and every Active
\* record has failure_count below critical_failure_threshold.
C29_StatusAgreesWithCount ==
    \A s \in Services : \A i \in DOMAIN api_keys[s] :
        /\ api_keys[s][i].failure_count >= 0
        /\ api_keys[s][i].status = "active"
             => api_keys[s][i].failure_count < critical_failure_threshold

\* A monitor pass made a Failed record Active again, one below the
\* threshold, after calls beyond the threshold were recorded on it.
C29_Witness ==
    /\ ret.op = "_background_monitoring"
    /\ calls > 0
    /\ \E s \in Services : \E i \in DOMAIN api_keys[s] :
          /\ api_keys[s][i].status = "active"
          /\ api_keys[s][i].failure_count = critical_failure_threshold - 1
          /\ api_keys[s][i].daily_requests > critical_failure_threshold

\* C30 (SpecOps), as claimed: with Redis reachable and no rotate_key or
\* _daily_reset under way, the stored entry of every record holds the
\* record's status, failure_count, daily_requests and daily_cost.
C30_StoreFollowsRecords ==
    (phase = "ready" /\ redisUp /\ rot = NoTask /\ monReset = <<>>) =>
        \A s \in Services : \A i \in DOMAIN api_keys[s] :
            /\ store[s] # NoData
            /\ store[s].status = EnumStr(api_keys[s][i].status)
            /\ store[s].failure_count = api_keys[s][i].failure_count
            /\ store[s].daily_requests = api_keys[s][i].daily_requests
            /\ store[s].daily_cost = api_keys[s][i].daily_cost

====
